---- MODULE Spec2Model ----
(***************************************************************************)
(* The nornweave storage engine: the documents and chunks tables of the    *)
(* initial schema, the DocumentRepository and ChunkRepository statements   *)
(* issued over pooled psycopg connections (one transaction per connection  *)
(* scope, READ COMMITTED), the ConnectionPool life cycle and the row       *)
(* mappers.                                                                *)
(***************************************************************************)
EXTENDS Integers, Sequences, FiniteSets, TLC

(***************************************************************************)
(* Input sets and bounds                                                   *)
(***************************************************************************)
Conns == {"k1", "k2"}
DocIds == {"d1", "d2"}
ChunkIds == {"c1", "c2", "c3"}
Domains == {"code", "docs"}
Hashes == {"h1", "h2"}
Tasks == {"t1", "t2"}
MaxBatch == 2        \* longest list handed to bulk_create
MaxTopK == 2         \* largest top_k
MaxPools == 2        \* calls of open()
MaxLimit == 2        \* largest limit of list_by_domain
MaxOffset == 2       \* largest offset of list_by_domain
max_pool_size == 1   \* DatabaseConfig.max_pool_size of the pool under test
VectorColumnDim == 768
SupportedDimensions == {384, 768, 1536}

VARIABLES
    documents,  \* committed rows of table documents
    chunks,     \* committed rows of table chunks
    conn,       \* per pooled connection: scope state, open transaction, running bulk_create
    self_pool,  \* ConnectionPool._pool: None or the AsyncConnectionPool it holds
    pools,      \* the AsyncConnectionPool objects built so far
    task,       \* per caller of ConnectionPool.connection(): its scope
    original,   \* the domain object handed to a mapper
    mapped,     \* the row to_row made of it
    restored    \* the domain object from_row made of the row

storeVars == <<documents, chunks, conn>>
poolVars == <<self_pool, pools, task>>
mapperVars == <<original, mapped, restored>>
vars == <<documents, chunks, conn, self_pool, pools, task, original, mapped, restored>>

None == 0
NoException == "None"
NoError == [type |-> "None"]

(***************************************************************************)
(* Domain model                                                            *)
(***************************************************************************)
Document(id, domain_id, content_hash, ingested_at) ==
    [id |-> id, domain_id |-> domain_id, source_path |-> "src/main.py",
     content |-> "code", content_hash |-> content_hash, metadata |-> {},
     ingested_at |-> ingested_at, source_updated_at |-> 1]

\* a list of floats of length n: lead holds its first entries, the rest are 0.0.
\* Entries are counted in units of which every fourth is a float32 number.
Values(n, lead) == [n |-> n, lead |-> lead]

EmbeddingVector(values, dimensions, model_name) ==
    [values |-> values, dimensions |-> dimensions, model_name |-> model_name]

\* EmbeddingVector's validation: Literal[384, 768, 1536], min_length=1, _check_dimensions
EmbeddingVector_valid(e) ==
    /\ e.dimensions \in SupportedDimensions
    /\ e.model_name # ""
    /\ e.values.n = e.dimensions

Chunk(id, document_id, domain_id, embedding, position) ==
    [id |-> id, document_id |-> document_id, domain_id |-> domain_id,
     content |-> "content", embedding |-> embedding, position |-> position,
     token_count |-> 5, metadata |-> {}, created_at |-> 1]

\* Chunk's validation: content min_length=1, position ge=0, token_count gt=0
Chunk_valid(c) ==
    /\ c.content # ""
    /\ c.position >= 0
    /\ c.token_count > 0
    /\ EmbeddingVector_valid(c.embedding)

Unit0 == Values(768, <<4, 0>>)
Unit1 == Values(768, <<0, 4>>)
Diag == Values(768, <<4, 4>>)
Neg0 == Values(768, <<-4, 0>>)
Zero == Values(768, <<0, 0>>)
Small == Values(384, <<4, 0>>)

Embedding(values) == EmbeddingVector(values, values.n, "test-model")

(***************************************************************************)
(* Row mappers                                                             *)
(***************************************************************************)
str(x) == x

\* to_row with source_updated_at taken from ingested_at
to_row_one_timestamp(doc) ==
    [id |-> str(doc.id), domain_id |-> str(doc.domain_id),
     source_path |-> doc.source_path, content |-> doc.content,
     content_hash |-> doc.content_hash, metadata |-> doc.metadata,
     ingested_at |-> doc.ingested_at, source_updated_at |-> doc.ingested_at]

DocumentMapper_to_row(doc) ==
    [id |-> str(doc.id), domain_id |-> str(doc.domain_id),
     source_path |-> doc.source_path, content |-> doc.content,
     content_hash |-> doc.content_hash, metadata |-> doc.metadata,
     ingested_at |-> doc.ingested_at, source_updated_at |-> doc.source_updated_at]

DocumentMapper_from_row(row) ==
    [id |-> row.id, domain_id |-> row.domain_id,
     source_path |-> row.source_path, content |-> row.content,
     content_hash |-> row.content_hash, metadata |-> row.metadata,
     ingested_at |-> row.ingested_at, source_updated_at |-> row.source_updated_at]

\* numpy's conversion of one float to float32: the nearest float32 number
float32(x) == 4 * ((x + 2) \div 4)

\* np.array(values, dtype=np.float32)
np_array_float32(values) ==
    [n |-> values.n, lead |-> [i \in DOMAIN values.lead |-> float32(values.lead[i])]]

\* ndarray.tolist(): every float32 is a float
tolist(array) == [n |-> array.n, lead |-> array.lead]

ChunkMapper_to_row(chunk) ==
    [id |-> str(chunk.id), document_id |-> str(chunk.document_id),
     domain_id |-> str(chunk.domain_id), content |-> chunk.content,
     embedding |-> np_array_float32(chunk.embedding.values),
     embedding_dimensions |-> chunk.embedding.dimensions,
     embedding_model_name |-> chunk.embedding.model_name,
     position |-> chunk.position, token_count |-> chunk.token_count,
     metadata |-> chunk.metadata, created_at |-> chunk.created_at]

ChunkMapper_from_row(row) ==
    [id |-> row.id, document_id |-> row.document_id, domain_id |-> row.domain_id,
     content |-> row.content,
     embedding |-> EmbeddingVector(tolist(row.embedding), row.embedding_dimensions,
                                   row.embedding_model_name),
     position |-> row.position, token_count |-> row.token_count,
     metadata |-> row.metadata, created_at |-> row.created_at]

\* EmbeddingVector(values=..., dimensions=..., model_name=...): pydantic checks
\* the Literal, min_length and _check_dimensions
EmbeddingVector_raises(values, dimensions, model_name) ==
    IF EmbeddingVector_valid(EmbeddingVector(values, dimensions, model_name)) THEN NoError
    ELSE [type |-> "ValidationError"]

\* a from_row that builds its objects without validation (model_construct)
from_row_unchecked(row) == NoError

\* from_row: EmbeddingVector(...), then Chunk(...), each validating its fields
ChunkMapper_from_row_raises(row) ==
    LET e == EmbeddingVector_raises(tolist(row.embedding), row.embedding_dimensions,
                                    row.embedding_model_name)
    IN  IF e # NoError THEN e
        ELSE IF Chunk_valid(ChunkMapper_from_row(row)) THEN NoError
        ELSE [type |-> "ValidationError"]

(***************************************************************************)
(* Schema: constraints of tables documents and chunks                      *)
(***************************************************************************)
documents_pkey(r1, r2) == r1.id = r2.id

\* the unique constraint declared over (id, domain_id, content_hash)
unique_key_with_id(r1, r2) ==
    r1.id = r2.id /\ r1.domain_id = r2.domain_id /\ r1.content_hash = r2.content_hash

\* UNIQUE (domain_id, content_hash)
documents_domain_id_content_hash_key(r1, r2) ==
    r1.domain_id = r2.domain_id /\ r1.content_hash = r2.content_hash

DocConflict(r1, r2) ==
    documents_pkey(r1, r2) \/ documents_domain_id_content_hash_key(r1, r2)

\* a key over the whole row instead of the id
chunks_key_whole_row(r1, r2) == r1 = r2

chunks_pkey(r1, r2) == r1.id = r2.id

\* a foreign key that any stored document satisfies
fkey_any_document(chunk_row, doc_row) == TRUE

\* document_id REFERENCES documents(id)
chunks_document_id_fkey(chunk_row, doc_row) == chunk_row.document_id = doc_row.id

\* embedding vector(768)
embedding_typmod(row) == row.embedding.n = VectorColumnDim

(***************************************************************************)
(* Transactions: what a connection sees and what it must wait for          *)
(***************************************************************************)
Others(k) == Conns \ {k}

DocView(k) == (documents \ conn[k].dDel) \cup conn[k].dIns

ChunkView(k) == (chunks \ conn[k].cDel) \cup conn[k].cIns

\* rows written by a transaction of another connection that is still open
DocInDoubt(k) == UNION {conn[k2].dIns \cup conn[k2].dDel : k2 \in Others(k)}

ChunkInDoubt(k) == UNION {conn[k2].cIns \cup conn[k2].cDel : k2 \in Others(k)}

\* committed rows another open transaction has deleted or replaced (row locks)
DocLocked(k) == UNION {conn[k2].dDel : k2 \in Others(k)}

ChunkLocked(k) == UNION {conn[k2].cDel : k2 \in Others(k)}

\* a foreign key check that takes no lock on the parent row
no_key_share(k) == {}

\* ids of committed documents another open transaction's new chunks refer to
DocKeyShared(k) == {c.document_id : c \in UNION {conn[k2].cIns : k2 \in Others(k)}}

\* unique indexes that do not wait for the open transactions of others
DocWriteOutcome_no_wait(k, row, old) ==
    IF \E r \in (DocView(k) \ old) \ DocInDoubt(k) : DocConflict(r, row)
    THEN "UniqueViolation"
    ELSE "ok"

\* outcome of writing `row` (replacing the rows `old`) under the unique indexes
DocWriteOutcome(k, row, old) ==
    IF \E r \in (DocView(k) \ old) \ DocInDoubt(k) : DocConflict(r, row)
    THEN "UniqueViolation"
    ELSE IF \E r \in DocInDoubt(k) \ old : DocConflict(r, row)
         THEN "wait"
         ELSE "ok"

\* outcome of INSERT INTO chunks: column type, primary key, then the foreign key
ChunkWriteOutcome(k, row) ==
    IF ~embedding_typmod(row) THEN "DataException"
    ELSE IF \E r \in ChunkView(k) \ ChunkInDoubt(k) : chunks_pkey(r, row)
    THEN "UniqueViolation"
    ELSE IF \E r \in ChunkInDoubt(k) : chunks_pkey(r, row)
    THEN "wait"
    ELSE IF ~\E d \in DocView(k) : chunks_document_id_fkey(row, d)
    THEN "ForeignKeyViolation"
    ELSE IF \E d \in DocView(k) \cap DocLocked(k) : chunks_document_id_fkey(row, d)
    THEN "wait"
    ELSE "ok"

NoBatch == <<>>

PooledConn ==
    [st |-> "pooled", exc |-> NoError, dIns |-> {}, dDel |-> {}, cIns |-> {}, cDel |-> {},
     batch |-> NoBatch, results |-> <<>>]

PgError(type) == [type |-> type]

InFailedSqlTransaction == PgError("InFailedSqlTransaction")

\* the call waits for a row lock another transaction holds
Blocked == [type |-> "blocked"]

\* the connection is checked out and no repository call is running on it
Ready(k) == conn[k].st \in {"out", "inerror"} /\ conn[k].batch = NoBatch

\* a statement failed: the transaction is aborted until the scope ends
Abort(c, exc) == [c EXCEPT !.st = "inerror", !.exc = exc, !.batch = NoBatch, !.results = <<>>]

(***************************************************************************)
(* Connection scopes: async with pool.connection() as conn                 *)
(***************************************************************************)
scope_enter(k) ==
    /\ conn[k].st = "pooled"
    /\ conn' = [conn EXCEPT ![k].st = "out"]
    /\ UNCHANGED <<documents, chunks, poolVars, mapperVars>>

\* the tables once the scope of connection k is left normally: COMMIT,
\* which is a ROLLBACK for a transaction that a failed statement has aborted
scope_exit_documents(k) == IF conn[k].st = "out" THEN DocView(k) ELSE documents

scope_exit_chunks(k) == IF conn[k].st = "out" THEN ChunkView(k) ELSE chunks

\* normal exit of the scope
scope_exit(k) ==
    /\ Ready(k)
    /\ documents' = scope_exit_documents(k)
    /\ chunks' = scope_exit_chunks(k)
    /\ conn' = [conn EXCEPT ![k] = PooledConn]
    /\ UNCHANGED <<poolVars, mapperVars>>

\* the scope is left by an exception or by cancellation: ROLLBACK
scope_abort(k) ==
    /\ conn[k].st \in {"out", "inerror"}
    /\ conn' = [conn EXCEPT ![k] = PooledConn]
    /\ UNCHANGED <<documents, chunks, poolVars, mapperVars>>

\* a repository call on connection k: it raises `exc`, or goes on from `after`
Statement(k, exc, after) ==
    /\ exc # Blocked
    /\ conn' = [conn EXCEPT ![k] = after]
    /\ UNCHANGED <<documents, chunks, poolVars, mapperVars>>

(***************************************************************************)
(* DocumentRepository                                                      *)
(***************************************************************************)
DuplicateDocumentError(domain_id, content_hash) ==
    [type |-> "DuplicateDocumentError", domain_id |-> domain_id,
     content_hash |-> content_hash]

DocumentNotFoundError(document_id) ==
    [type |-> "DocumentNotFoundError", document_id |-> document_id]

ChunkNotFoundError(chunk_id) ==
    [type |-> "ChunkNotFoundError", chunk_id |-> chunk_id]

\* create: except pg_errors.UniqueViolation: raise DuplicateDocumentError(...)
create_raises(k, document) ==
    LET outcome == DocWriteOutcome(k, DocumentMapper_to_row(document), {})
    IN  IF conn[k].st = "inerror" THEN InFailedSqlTransaction
        ELSE IF outcome = "wait" THEN Blocked
        ELSE IF outcome = "UniqueViolation"
        THEN DuplicateDocumentError(str(document.domain_id), document.content_hash)
        ELSE NoError

\* INSERT ... ON CONFLICT (domain_id, content_hash) DO UPDATE
create_upserts(k, document) ==
    LET new == DocumentMapper_to_row(document)
        old == {r \in DocView(k) : r.domain_id = new.domain_id
                                    /\ r.content_hash = new.content_hash}
    IN  IF conn[k].st = "inerror" \/ create_raises(k, document) = Blocked THEN conn[k]
        ELSE [conn[k] EXCEPT !.dDel = @ \cup (old \cap documents),
                             !.dIns = (@ \ old) \cup {new}]

\* create: INSERT INTO documents ... RETURNING *
create_conn(k, document) ==
    LET exc == create_raises(k, document)
    IN  IF conn[k].st = "inerror" \/ exc = Blocked THEN conn[k]
        ELSE IF exc # NoError THEN Abort(conn[k], exc)
        ELSE [conn[k] EXCEPT !.dIns = @ \cup {DocumentMapper_to_row(document)}]

create_returns(k, document) == DocumentMapper_from_row(DocumentMapper_to_row(document))

create(k, document) ==
    /\ Ready(k)
    /\ Statement(k, create_raises(k, document), create_conn(k, document))

\* get_by_id: SELECT * FROM documents WHERE id = %(id)s
get_by_id_rows(k, document_id) == {r \in DocView(k) : r.id = str(document_id)}

get_by_id_raises(k, document_id) ==
    IF conn[k].st = "inerror" THEN InFailedSqlTransaction
    ELSE IF get_by_id_rows(k, document_id) = {} THEN DocumentNotFoundError(str(document_id))
    ELSE NoError

get_by_id_returns(k, document_id) ==
    {DocumentMapper_from_row(r) : r \in get_by_id_rows(k, document_id)}

get_by_id(k, document_id) ==
    /\ Ready(k)
    /\ Statement(k, get_by_id_raises(k, document_id), conn[k])

\* get_by_content_hash: SELECT * FROM documents WHERE domain_id = ... AND
\* content_hash = ...; fetchone
get_by_content_hash_raises(k, domain_id, content_hash) ==
    IF conn[k].st = "inerror" THEN InFailedSqlTransaction ELSE NoError

\* a lookup by content_hash alone
get_by_hash_only(k, domain_id, content_hash) ==
    {DocumentMapper_from_row(r) : r \in {x \in DocView(k) : x.content_hash = content_hash}}

\* the documents the call may return; the empty set stands for None
get_by_content_hash_returns(k, domain_id, content_hash) ==
    {DocumentMapper_from_row(r) :
        r \in {x \in DocView(k) : /\ x.domain_id = str(domain_id)
                                  /\ x.content_hash = content_hash}}

get_by_content_hash(k, domain_id, content_hash) ==
    /\ Ready(k)
    /\ Statement(k, get_by_content_hash_raises(k, domain_id, content_hash), conn[k])

\* update: UPDATE documents SET ... WHERE id = %(id)s RETURNING *
update_raises(k, document) ==
    LET new == DocumentMapper_to_row(document)
        target == {r \in DocView(k) : r.id = new.id}
        outcome == DocWriteOutcome(k, new, target)
    IN  IF conn[k].st = "inerror" THEN InFailedSqlTransaction
        ELSE IF target = {} THEN DocumentNotFoundError(str(document.id))
        ELSE IF target \cap DocLocked(k) # {} \/ outcome = "wait" THEN Blocked
        ELSE IF outcome = "UniqueViolation" THEN PgError("UniqueViolation")
        ELSE NoError

\* an UPDATE whose SET list leaves content_hash out
update_keeps_hash(k, document) ==
    LET new == DocumentMapper_to_row(document)
        target == {r \in DocView(k) : r.id = new.id}
        exc == update_raises(k, document)
    IN  IF exc = NoError
        THEN [conn[k] EXCEPT !.dDel = @ \cup (target \cap documents),
                             !.dIns = (@ \ target) \cup
                                 {[new EXCEPT !.content_hash = r.content_hash] : r \in target}]
        ELSE IF exc = PgError("UniqueViolation") THEN Abort(conn[k], exc)
        ELSE conn[k]

update_conn(k, document) ==
    LET new == DocumentMapper_to_row(document)
        target == {r \in DocView(k) : r.id = new.id}
        exc == update_raises(k, document)
    IN  IF exc = NoError
        THEN [conn[k] EXCEPT !.dDel = @ \cup (target \cap documents),
                             !.dIns = (@ \ target) \cup {new}]
        ELSE IF exc = PgError("UniqueViolation") THEN Abort(conn[k], exc)
        ELSE conn[k]

update_returns(k, document) == DocumentMapper_from_row(DocumentMapper_to_row(document))

update(k, document) ==
    /\ Ready(k)
    /\ Statement(k, update_raises(k, document), update_conn(k, document))

\* a foreign key that leaves the chunks of a deleted document behind
no_cascade(k, target) == {}

\* ON DELETE CASCADE: the chunks that go with the documents `target`
Cascade(k, target) ==
    {c \in ChunkView(k) : \E d \in target : chunks_document_id_fkey(c, d)}

\* a delete that takes a missing row for done
delete_silent(k, document_id) ==
    LET target == {r \in DocView(k) : r.id = str(document_id)}
    IN  IF conn[k].st = "inerror" THEN InFailedSqlTransaction
        ELSE IF \/ target \cap DocLocked(k) # {}
                \/ str(document_id) \in DocKeyShared(k)
                \/ Cascade(k, target) \cap ChunkLocked(k) # {}
        THEN Blocked
        ELSE NoError

\* delete: DELETE FROM documents WHERE id = %(id)s RETURNING id
delete_raises(k, document_id) ==
    LET target == {r \in DocView(k) : r.id = str(document_id)}
    IN  IF conn[k].st = "inerror" THEN InFailedSqlTransaction
        ELSE IF target = {} THEN DocumentNotFoundError(str(document_id))
        ELSE IF \/ target \cap DocLocked(k) # {}
                \/ str(document_id) \in DocKeyShared(k)
                \/ Cascade(k, target) \cap ChunkLocked(k) # {}
        THEN Blocked
        ELSE NoError

delete_conn(k, document_id) ==
    LET target == {r \in DocView(k) : r.id = str(document_id)}
        cascade == Cascade(k, target)
    IN  IF delete_raises(k, document_id) = NoError
        THEN [conn[k] EXCEPT !.dDel = @ \cup (target \cap documents),
                             !.dIns = @ \ target,
                             !.cDel = @ \cup (cascade \cap chunks),
                             !.cIns = @ \ cascade]
        ELSE conn[k]

delete(k, document_id) ==
    /\ Ready(k)
    /\ Statement(k, delete_raises(k, document_id), delete_conn(k, document_id))

\* what a statement of connection k sees once its record is `c`
DocViewOf(c) == (documents \ c.dDel) \cup c.dIns

ChunkViewOf(c) == (chunks \ c.cDel) \cup c.cIns

(***************************************************************************)
(* ChunkRepository                                                         *)
(***************************************************************************)
\* bulk_create([]) with a statement sent for the empty batch
bulk_create_empty_executes(k) ==
    IF conn[k].st = "inerror" THEN InFailedSqlTransaction ELSE NoError

\* bulk_create: if not chunks: return []
bulk_create_empty_raises(k) == NoError

bulk_create_empty_conn(k) == conn[k]

bulk_create_empty_returns(k) == <<>>

bulk_create_empty(k) ==
    /\ Ready(k)
    /\ Statement(k, bulk_create_empty_raises(k), bulk_create_empty_conn(k))

\* the psycopg error of a failed INSERT INTO chunks: its class, and the key
\* value PostgreSQL names in the detail of a constraint violation
ChunkWriteError(outcome, row) ==
    [type |-> outcome,
     detail |-> IF outcome = "UniqueViolation" THEN row.id
                ELSE IF outcome = "ForeignKeyViolation" THEN row.document_id
                ELSE ""]

\* bulk_create, one pass of the loop: INSERT INTO chunks ... RETURNING *
bulk_create_raises(k, chunk) ==
    LET outcome == ChunkWriteOutcome(k, ChunkMapper_to_row(chunk))
    IN  IF conn[k].st = "inerror" THEN InFailedSqlTransaction
        ELSE IF outcome = "wait" THEN Blocked
        ELSE IF outcome # "ok" THEN ChunkWriteError(outcome, ChunkMapper_to_row(chunk))
        ELSE ChunkMapper_from_row_raises(ChunkMapper_to_row(chunk))

\* row = to_row(chunk); execute; results.append(from_row(result)).
\* When from_row raises, the row is inserted and the transaction goes on.
bulk_create_conn(k, chunk) ==
    LET exc == bulk_create_raises(k, chunk)
        new == ChunkMapper_to_row(chunk)
    IN  IF conn[k].st = "inerror" \/ exc = Blocked THEN conn[k]
        ELSE IF exc = ChunkMapper_from_row_raises(new) /\ exc # NoError
        THEN [conn[k] EXCEPT !.cIns = @ \cup {new}, !.exc = exc,
                             !.batch = NoBatch, !.results = <<>>]
        ELSE IF exc # NoError THEN Abort(conn[k], exc)
        ELSE [conn[k] EXCEPT !.cIns = @ \cup {new},
                             !.batch = Append(@, chunk),
                             !.results = Append(@, ChunkMapper_from_row(new))]

bulk_create_insert(k, chunk) ==
    /\ conn[k].st \in {"out", "inerror"}
    /\ Len(conn[k].batch) < MaxBatch
    /\ Statement(k, bulk_create_raises(k, chunk), bulk_create_conn(k, chunk))

\* bulk_create: the loop is over, return results
bulk_create_returns(k) == conn[k].results

bulk_create_return(k) ==
    /\ conn[k].st = "out"
    /\ conn[k].batch # NoBatch
    /\ Statement(k, NoError, [conn[k] EXCEPT !.batch = NoBatch, !.results = <<>>])

\* ChunkRepository.get_by_id: SELECT * FROM chunks WHERE id = %(id)s;
\* if row is None: raise ChunkNotFoundError; return from_row(row)
ChunkRepository_get_by_id_raises(k, chunk_id) ==
    LET rows == {r \in ChunkView(k) : r.id = str(chunk_id)}
    IN  IF conn[k].st = "inerror" THEN InFailedSqlTransaction
        ELSE IF rows = {} THEN ChunkNotFoundError(str(chunk_id))
        ELSE IF \E r \in rows : ChunkMapper_from_row_raises(r) # NoError
        THEN [type |-> "ValidationError"]
        ELSE NoError

ChunkRepository_get_by_id(k, chunk_id) ==
    /\ Ready(k)
    /\ Statement(k, ChunkRepository_get_by_id_raises(k, chunk_id), conn[k])

Min(a, b) == IF a <= b THEN a ELSE b

\* every enumeration of the finite set S
Perms(S) ==
    {s \in [1..Cardinality(S) -> S] : \A i, j \in 1..Cardinality(S) : i # j => s[i] # s[j]}

\* the orders in which ORDER BY may return the rows S; LE is the sort order and
\* rows that compare equal come in any order
OrderedBy(S, LE(_, _)) ==
    {s \in Perms(S) : \A i, j \in 1..Cardinality(S) : i < j => LE(s[i], s[j])}

\* the rows in whatever order the scan finds them
unordered(r1, r2) == TRUE

\* ORDER BY position ASC
PositionAsc(r1, r2) == r1.position <= r2.position

\* get_by_document_id: SELECT * FROM chunks WHERE document_id = ... ORDER BY position ASC
get_by_document_id_rows(k, document_id) ==
    OrderedBy({r \in ChunkView(k) : r.document_id = str(document_id)}, PositionAsc)

get_by_document_id_raises(k, document_id) ==
    IF conn[k].st = "inerror" THEN InFailedSqlTransaction
    ELSE IF \E r \in ChunkView(k) : /\ r.document_id = str(document_id)
                                     /\ ChunkMapper_from_row_raises(r) # NoError
    THEN [type |-> "ValidationError"]
    ELSE NoError

\* the lists get_by_document_id may return
get_by_document_id_returns(k, document_id) ==
    {[i \in DOMAIN rows |-> ChunkMapper_from_row(rows[i])] :
        rows \in get_by_document_id_rows(k, document_id)}

get_by_document_id(k, document_id) ==
    /\ Ready(k)
    /\ Statement(k, get_by_document_id_raises(k, document_id), conn[k])

\* delete_by_document_id: DELETE FROM chunks WHERE document_id = ...; return cur.rowcount
delete_by_document_id_raises(k, document_id) ==
    LET rows == {r \in ChunkView(k) : r.document_id = str(document_id)}
    IN  IF conn[k].st = "inerror" THEN InFailedSqlTransaction
        ELSE IF rows \cap ChunkLocked(k) # {} THEN Blocked
        ELSE NoError

\* DELETE FROM chunks without the WHERE clause
delete_every_chunk(k, document_id) ==
    IF delete_by_document_id_raises(k, document_id) = NoError
    THEN [conn[k] EXCEPT !.cDel = @ \cup chunks, !.cIns = {}]
    ELSE conn[k]

delete_by_document_id_conn(k, document_id) ==
    LET rows == {r \in ChunkView(k) : r.document_id = str(document_id)}
    IN  IF delete_by_document_id_raises(k, document_id) = NoError
        THEN [conn[k] EXCEPT !.cDel = @ \cup (rows \cap chunks), !.cIns = @ \ rows]
        ELSE conn[k]

delete_by_document_id_returns(k, document_id) ==
    Cardinality({r \in ChunkView(k) : r.document_id = str(document_id)})

delete_by_document_id(k, document_id) ==
    /\ Ready(k)
    /\ Statement(k, delete_by_document_id_raises(k, document_id),
                 delete_by_document_id_conn(k, document_id))

(***************************************************************************)
(* count_by_domain of both repositories                                    *)
(***************************************************************************)
\* SELECT count(*) AS cnt FROM documents WHERE domain_id = ...
DocumentRepository_count_by_domain_returns(k, domain_id) ==
    Cardinality({r \in DocView(k) : r.domain_id = str(domain_id)})

DocumentRepository_count_by_domain(k, domain_id) ==
    /\ Ready(k)
    /\ Statement(k, IF conn[k].st = "inerror" THEN InFailedSqlTransaction ELSE NoError,
                 conn[k])

\* SELECT count(*) AS cnt FROM chunks
count_every_chunk(k, domain_id) == Cardinality(ChunkView(k))

\* SELECT count(*) AS cnt FROM chunks WHERE domain_id = ...
ChunkRepository_count_by_domain_returns(k, domain_id) ==
    Cardinality({r \in ChunkView(k) : r.domain_id = str(domain_id)})

ChunkRepository_count_by_domain(k, domain_id) ==
    /\ Ready(k)
    /\ Statement(k, IF conn[k].st = "inerror" THEN InFailedSqlTransaction ELSE NoError,
                 conn[k])

(***************************************************************************)
(* DocumentRepository.list_by_domain                                       *)
(***************************************************************************)
\* ORDER BY ingested_at ASC
IngestedAtAsc(r1, r2) == r1.ingested_at <= r2.ingested_at

\* ORDER BY ingested_at DESC
IngestedAtDesc(r1, r2) == r1.ingested_at >= r2.ingested_at

list_by_domain_raises(k, domain_id, limit, offset) ==
    IF conn[k].st = "inerror" THEN InFailedSqlTransaction ELSE NoError

\* SELECT * FROM documents WHERE domain_id = ... ORDER BY ingested_at DESC
\* LIMIT limit OFFSET offset: the lists list_by_domain may return
list_by_domain_returns(k, domain_id, limit, offset) ==
    LET rows == {r \in DocView(k) : r.domain_id = str(domain_id)}
    IN  {[i \in 1..(Min(offset + limit, Len(s)) - Min(offset, Len(s))) |->
             DocumentMapper_from_row(s[offset + i])] : s \in OrderedBy(rows, IngestedAtDesc)}

list_by_domain(k, domain_id, limit, offset) ==
    /\ Ready(k)
    /\ Statement(k, list_by_domain_raises(k, domain_id, limit, offset), conn[k])

(***************************************************************************)
(* Similarity search                                                       *)
(***************************************************************************)
RECURSIVE DotTo(_, _, _)
DotTo(a, b, i) == IF i = 0 THEN 0 ELSE a[i] * b[i] + DotTo(a, b, i - 1)

\* the inner product of two float lists (entries past lead are 0.0)
Dot(a, b) == DotTo(a.lead, b.lead, Len(a.lead))

\* x * |x|: has the order of x, and squares away a square root
SignedSquare(x) == IF x >= 0 THEN x * x ELSE -(x * x)

\* the cosine similarity dot / sqrt(norms) of a and b, kept exactly;
\* it is NaN when a or b has no length
cosine_similarity(a, b) == [dot |-> Dot(a, b), norms |-> Dot(a, a) * Dot(b, b)]

IsNaN(s) == s.norms = 0

\* s1 >= s2 for two similarities, neither NaN
SimGE(s1, s2) == SignedSquare(s1.dot) * s2.norms >= SignedSquare(s2.dot) * s1.norms

Fraction(num, den) == [num |-> num, den |-> den]

\* s >= num/den for a similarity that is not NaN
SimGEFraction(s, t) == SignedSquare(s.dot * t.den) >= SignedSquare(t.num) * s.norms

\* PostgreSQL's float8 >=: NaN is greater than every number
pg_float8_ge(s, t) == IsNaN(s) \/ SimGEFraction(s, t)

\* ORDER BY embedding <=> query DESC
DistanceDesc(query, r1, r2) ==
    LET s1 == cosine_similarity(r1.embedding, query)
        s2 == cosine_similarity(r2.embedding, query)
    IN  IsNaN(s1) \/ (~IsNaN(s2) /\ SimGE(s2, s1))

\* ORDER BY embedding <=> query: ascending distance is descending similarity, NaN last
DistanceAsc(query, r1, r2) ==
    LET s1 == cosine_similarity(r1.embedding, query)
        s2 == cosine_similarity(r2.embedding, query)
    IN  IsNaN(s2) \/ (~IsNaN(s1) /\ SimGE(s1, s2))

\* the rows a scan of chunks reaches: a sequential scan every row, a scan of
\* the ivfflat index the rows of the lists it probes
Scans(k) == SUBSET ChunkView(k)

\* the WHERE clause without its domain_id condition
search_filter_any_domain(r, domain_id, query, min_similarity) ==
    pg_float8_ge(cosine_similarity(r.embedding, query), min_similarity)

\* WHERE domain_id = %(domain_id)s AND 1 - (embedding <=> %(query)s) >= %(min_similarity)s
search_filter(r, domain_id, query, min_similarity) ==
    /\ r.domain_id = str(domain_id)
    /\ pg_float8_ge(cosine_similarity(r.embedding, query), min_similarity)

\* ORDER BY embedding <=> %(query)s LIMIT %(top_k)s
search_rows(visited, domain_id, query, top_k, min_similarity) ==
    LET hits == {r \in visited : search_filter(r, domain_id, query, min_similarity)}
        ByDistance(r1, r2) == DistanceAsc(query, r1, r2)
    IN  {SubSeq(s, 1, Min(top_k, Len(s))) : s \in OrderedBy(hits, ByDistance)}

\* search_similar(..., min_similarity: float = 0.0)
min_similarity_default == Fraction(0, 1)

\* pgvector refuses to compare vectors of different dimensions
search_similar_mismatch(visited, domain_id, query) ==
    \E r \in visited : r.domain_id = str(domain_id) /\ r.embedding.n # query.n

search_similar_raises(k, visited, domain_id, query_embedding) ==
    IF conn[k].st = "inerror" THEN InFailedSqlTransaction
    ELSE IF search_similar_mismatch(visited, domain_id, np_array_float32(query_embedding))
    THEN PgError("DataException")
    ELSE NoError

\* the lists of (chunk, similarity) search_similar may return
search_similar_returns(k, domain_id, query_embedding, top_k, min_similarity) ==
    LET embedding_array == np_array_float32(query_embedding)
    IN  UNION {
          {[i \in DOMAIN rows |->
               <<ChunkMapper_from_row(rows[i]),
                 cosine_similarity(rows[i].embedding, embedding_array)>>] :
             rows \in search_rows(visited, domain_id, embedding_array, top_k, min_similarity)} :
          visited \in {v \in Scans(k) :
                          search_similar_raises(k, v, domain_id, query_embedding) = NoError}}

search_similar(k, domain_id, query_embedding, top_k, min_similarity) ==
    /\ Ready(k)
    /\ \E visited \in Scans(k) :
          LET exc == search_similar_raises(k, visited, domain_id, query_embedding)
          IN  Statement(k, exc,
                        IF exc = PgError("DataException") THEN Abort(conn[k], exc)
                        ELSE conn[k])

(***************************************************************************)
(* ConnectionPool                                                          *)
(***************************************************************************)
IdleTask == [pc |-> "idle", pool |-> 0, exc |-> NoException]

\* AsyncConnectionPool(..., open=False): a pool object, not yet opened,
\* out is the set of tasks holding one of its connections, reachable tells
\* whether its workers can connect to the store at conninfo
AsyncConnectionPool == [state |-> "new", out |-> {}, reachable |-> TRUE]

\* ConnectionPool.__init__: self._pool = None
ConnectionPool_init ==
    /\ self_pool = None
    /\ pools = <<>>
    /\ task = [t \in Tasks |-> IdleTask]

\* the pool object self._pool refers to accepts requests
is_open == self_pool # None /\ pools[self_pool].state = "open"

\* await self._pool.open(): wait=False, the call returns once the workers are
\* started; they connect, and retry a failed connect, in the background
open_raises(reachable) == NoException

\* AsyncConnectionPool(min_size=..., max_size=..., open=False) checks its sizes
AsyncConnectionPool_raises(min_size, max_size) ==
    IF min_size < 0 \/ max_size < min_size THEN "ValueError" ELSE NoException

\* an open that stores the new pool object before anything can fail
open_assigns_first(t) ==
    /\ task[t].pc = "idle"
    /\ Len(pools) < MaxPools
    /\ \E min_size \in {1, max_pool_size + 1}, reachable \in BOOLEAN :
          LET exc == AsyncConnectionPool_raises(min_size, max_pool_size)
          IN  IF exc # NoException
              THEN /\ task' = [task EXCEPT ![t] = [IdleTask EXCEPT !.exc = exc]]
                   /\ pools' = Append(pools, AsyncConnectionPool)
              ELSE /\ open_raises(reachable) = NoException
                   /\ pools' = Append(pools, [AsyncConnectionPool EXCEPT !.state = "open",
                                                                        !.reachable = reachable])
                   /\ UNCHANGED task
    /\ self_pool' = Len(pools) + 1
    /\ UNCHANGED <<storeVars, mapperVars>>

\* open: self._pool = AsyncConnectionPool(...); await self._pool.open()
\* the sizes are read from the configuration at each call; when the
\* constructor raises, the assignment to self._pool does not take place
open(t) ==
    /\ task[t].pc = "idle"
    /\ \E min_size \in {1, max_pool_size + 1}, reachable \in BOOLEAN :
          LET exc == AsyncConnectionPool_raises(min_size, max_pool_size)
          IN  IF exc # NoException
              THEN /\ task' = [task EXCEPT ![t] = [IdleTask EXCEPT !.exc = exc]]
                   /\ UNCHANGED <<pools, self_pool>>
              ELSE /\ Len(pools) < MaxPools
                   /\ open_raises(reachable) = NoException
                   /\ pools' = Append(pools, [AsyncConnectionPool EXCEPT !.state = "open",
                                                                        !.reachable = reachable])
                   /\ self_pool' = Len(pools) + 1
                   /\ UNCHANGED task
    /\ UNCHANGED <<storeVars, mapperVars>>

\* close: if self._pool is not None: await self._pool.close()
close_begin(t) ==
    /\ task[t].pc = "idle"
    /\ IF self_pool = None
       THEN UNCHANGED <<pools, task>>
       ELSE /\ pools' = [pools EXCEPT ![self_pool].state = "closed"]
            /\ task' = [task EXCEPT ![t] = [pc |-> "closing", pool |-> self_pool,
                                            exc |-> NoException]]
    /\ UNCHANGED <<self_pool, storeVars, mapperVars>>

\* close, once the pool has closed: self._pool = None
close_end(t) ==
    /\ task[t].pc = "closing"
    /\ self_pool' = None
    /\ task' = [task EXCEPT ![t] = IdleTask]
    /\ UNCHANGED <<pools, storeVars, mapperVars>>

\* connection() without its check of self._pool
connection_unchecked == NoException

\* connection: if self._pool is None: raise RuntimeError(msg);
\* self._pool.connection() raises PoolClosed on a pool that is closed
connection_raises ==
    IF self_pool = None THEN "RuntimeError"
    ELSE IF pools[self_pool].state # "open" THEN "PoolClosed"
    ELSE NoException

\* the pool has a connection to hand out
available(p) == pools[p].reachable /\ Cardinality(pools[p].out) < max_pool_size

\* connection: async with self._pool.connection() as conn
connection_task(t) ==
    IF connection_raises # NoException THEN [IdleTask EXCEPT !.exc = connection_raises]
    ELSE IF available(self_pool) THEN [pc |-> "in", pool |-> self_pool, exc |-> NoException]
    ELSE [pc |-> "waiting", pool |-> self_pool, exc |-> NoException]

connection_pools(t) ==
    IF connection_raises = NoException /\ available(self_pool)
    THEN [pools EXCEPT ![self_pool].out = @ \cup {t}]
    ELSE pools

connection(t) ==
    /\ task[t].pc = "idle"
    /\ task' = [task EXCEPT ![t] = connection_task(t)]
    /\ pools' = connection_pools(t)
    /\ UNCHANGED <<self_pool, storeVars, mapperVars>>

\* a queue without timeout: the request stays queued until it can be served
getconn_waits(t) ==
    LET p == task[t].pool
    IN  /\ task[t].pc = "waiting"
        /\ IF pools[p].state # "open"
           THEN /\ task' = [task EXCEPT ![t] = [IdleTask EXCEPT !.exc = "PoolClosed"]]
                /\ UNCHANGED pools
           ELSE IF available(p)
           THEN /\ task' = [task EXCEPT ![t].pc = "in"]
                /\ pools' = [pools EXCEPT ![p].out = @ \cup {t}]
           ELSE UNCHANGED <<task, pools>>
        /\ UNCHANGED <<self_pool, storeVars, mapperVars>>

\* a queued request is served, or ends with the pool closed or after pool_timeout
getconn(t) ==
    LET p == task[t].pool
    IN  /\ task[t].pc = "waiting"
        /\ IF pools[p].state # "open"
           THEN /\ task' = [task EXCEPT ![t] = [IdleTask EXCEPT !.exc = "PoolClosed"]]
                /\ UNCHANGED pools
           ELSE IF available(p)
           THEN /\ task' = [task EXCEPT ![t].pc = "in"]
                /\ pools' = [pools EXCEPT ![p].out = @ \cup {t}]
           ELSE /\ task' = [task EXCEPT ![t] = [IdleTask EXCEPT !.exc = "PoolTimeout"]]
                /\ UNCHANGED pools
        /\ UNCHANGED <<self_pool, storeVars, mapperVars>>

\* async with self._pool.connection(): __aexit__ returns the connection
putconn(t) == [pools EXCEPT ![task[t].pool].out = @ \ {t}]

\* a scope that returns the connection unless the task is cancelled
scope_pools_leak(t, exc) == IF exc = "CancelledError" THEN pools ELSE putconn(t)

\* the pool after the scope of task t has ended with `exc` (NoException: normal return)
scope_pools(t, exc) == putconn(t)

\* the body of the scope returns
body_return(t) ==
    /\ task[t].pc = "in"
    /\ pools' = scope_pools(t, NoException)
    /\ task' = [task EXCEPT ![t] = IdleTask]
    /\ UNCHANGED <<self_pool, storeVars, mapperVars>>

\* the body of the scope raises
body_raise(t) ==
    /\ task[t].pc = "in"
    /\ pools' = scope_pools(t, "Exception")
    /\ task' = [task EXCEPT ![t] = [IdleTask EXCEPT !.exc = "Exception"]]
    /\ UNCHANGED <<self_pool, storeVars, mapperVars>>

\* the task is cancelled in the scope, or while it waits for a connection
cancel(t) ==
    /\ task[t].pc \in {"in", "waiting"}
    /\ pools' = IF task[t].pc = "in" THEN scope_pools(t, "CancelledError") ELSE pools
    /\ task' = [task EXCEPT ![t] = [IdleTask EXCEPT !.exc = "CancelledError"]]
    /\ UNCHANGED <<self_pool, storeVars, mapperVars>>

\* connections of pool p that are checked out
checked_out(p) == Cardinality(pools[p].out)

PoolInit ==
    /\ ConnectionPool_init
    /\ documents = {} /\ chunks = {} /\ conn = [k \in Conns |-> PooledConn]
    /\ original = None /\ mapped = {} /\ restored = {}

PoolNext ==
    \/ \E t \in Tasks : open(t)
    \/ \E t \in Tasks : close_begin(t)
    \/ \E t \in Tasks : close_end(t)
    \/ \E t \in Tasks : connection(t)
    \/ \E t \in Tasks : getconn(t)
    \/ \E t \in Tasks : body_return(t)
    \/ \E t \in Tasks : body_raise(t)
    \/ \E t \in Tasks : cancel(t)

PoolSpec == PoolInit /\ [][PoolNext]_vars

\* timeout=self._config.pool_timeout: the timer of a queued request runs out
\* unless the request is served before
PoolTimeoutSpec == PoolSpec /\ \A t \in Tasks : WF_vars(getconn(t))

(***************************************************************************)
(* Mapper round trips                                                      *)
(***************************************************************************)
Metadatas == {{}, {<<"language", "python">>}}
Timestamps == {1, 2}

\* the valid Documents the mappers are applied to
Documents ==
    {[id |-> i, domain_id |-> dom, source_path |-> p, content |-> c, content_hash |-> h,
      metadata |-> m, ingested_at |-> t1, source_updated_at |-> t2] :
        i \in DocIds, dom \in Domains, p \in {"src/main.py", "README.md"},
        c \in {"code", "text"}, h \in Hashes, m \in Metadatas,
        t1 \in Timestamps, t2 \in Timestamps}

MapperInit ==
    /\ original \in Documents
    /\ mapped = {} /\ restored = {}
    /\ documents = {} /\ chunks = {} /\ conn = [k \in Conns |-> PooledConn]
    /\ ConnectionPool_init

\* row = DocumentMapper.to_row(doc)
to_row ==
    /\ mapped = {}
    /\ mapped' = {DocumentMapper_to_row(original)}
    /\ UNCHANGED <<original, restored, storeVars, poolVars>>

\* doc = DocumentMapper.from_row(row)
from_row ==
    /\ mapped # {} /\ restored = {}
    /\ restored' = {DocumentMapper_from_row(r) : r \in mapped}
    /\ UNCHANGED <<original, mapped, storeVars, poolVars>>

MapperNext == to_row \/ from_row

MapperSpec == MapperInit /\ [][MapperNext]_vars

(***************************************************************************)
(* Specifications                                                          *)
(***************************************************************************)
DocInputs ==
    {Document(i, key[1], key[2], 1) :
        i \in DocIds, key \in {<<"code", "h1">>, <<"docs", "h2">>}}

ChunkInputs == {Chunk("c1", d, "code", Embedding(Unit0), 0) : d \in DocIds}

StoreInit ==
    /\ documents = {}
    /\ chunks = {}
    /\ conn = [k \in Conns |-> PooledConn]

Init ==
    /\ StoreInit
    /\ ConnectionPool_init
    /\ original = None /\ mapped = {} /\ restored = {}

Next ==
    \/ \E k \in Conns : scope_enter(k)
    \/ \E k \in Conns : scope_exit(k)
    \/ \E k \in Conns : scope_abort(k)
    \/ \E k \in Conns, d \in DocInputs : create(k, d)
    \/ \E k \in Conns, i \in DocIds : get_by_id(k, i)
    \/ \E k \in Conns, d \in DocInputs : update(k, d)
    \/ \E k \in Conns, i \in DocIds : delete(k, i)
    \/ \E k \in Conns : bulk_create_empty(k)
    \/ \E k \in Conns, c \in ChunkInputs : bulk_create_insert(k, c)
    \/ \E k \in Conns : bulk_create_return(k)
    \/ \E k \in Conns, i \in DocIds : get_by_document_id(k, i)
    \/ \E k \in Conns, i \in DocIds : delete_by_document_id(k, i)
    \/ \E k \in Conns, i \in ChunkIds : ChunkRepository_get_by_id(k, i)

Spec == Init /\ [][Next]_vars

\* one connection, used for the chunk queries
SerialDocInputs == {Document("d1", "code", "h1", 1), Document("d2", "docs", "h2", 1)}

\* c1 and c2 belong to d1 (c1 after c2, or both at position 1), c3 to d2
SerialChunkInputs ==
    {Chunk("c1", "d1", "code", Embedding(Unit0), 1),
     Chunk("c1", "d1", "code", Embedding(Zero), 1),
     Chunk("c2", "d1", "code", Embedding(Diag), 0),
     Chunk("c2", "d1", "code", Embedding(Neg0), 1),
     Chunk("c3", "d2", "docs", Embedding(Unit0), 0)}

SerialQueries == {Unit0, Unit1, Zero, Small}
SerialTopKs == 1..MaxTopK
Thresholds == {Fraction(-1, 1), Fraction(0, 1), Fraction(1, 2)}

SerialNext ==
    \/ scope_enter("k1")
    \/ scope_exit("k1")
    \/ scope_abort("k1")
    \/ \E d \in SerialDocInputs : create("k1", d)
    \/ \E i \in DocIds : delete("k1", i)
    \/ \E i \in DocIds : get_by_id("k1", i)
    \/ \E c \in SerialChunkInputs : bulk_create_insert("k1", c)
    \/ bulk_create_return("k1")
    \/ \E i \in DocIds : get_by_document_id("k1", i)
    \/ \E i \in DocIds : delete_by_document_id("k1", i)
    \/ \E dom \in Domains, q \in SerialQueries, n \in SerialTopKs, t \in Thresholds :
          search_similar("k1", dom, q, n, t)

SerialSpec == Init /\ [][SerialNext]_vars

\* two connections, one document and batches of its chunks: c1 and c2 belong
\* to d1, the third input names a parent that is never stored, the fourth is
\* a Chunk whose content was emptied after its construction (c.content = "")
BatchDocInputs == {Document("d1", "code", "h1", 1)}

BatchChunkInputs ==
    {Chunk("c1", "d1", "code", Embedding(Unit0), 0),
     Chunk("c2", "d1", "code", Embedding(Unit0), 1),
     Chunk("c1", "d2", "code", Embedding(Unit0), 0),
     [Chunk("c2", "d1", "code", Embedding(Unit0), 1) EXCEPT !.content = ""]}

BatchNext ==
    \/ \E k \in Conns : scope_enter(k)
    \/ \E k \in Conns : scope_exit(k)
    \/ \E k \in Conns : scope_abort(k)
    \/ \E k \in Conns, d \in BatchDocInputs : create(k, d)
    \/ \E k \in Conns, d \in BatchDocInputs : delete(k, d.id)
    \/ \E k \in Conns, c \in BatchChunkInputs : bulk_create_insert(k, c)
    \/ \E k \in Conns : bulk_create_return(k)
    \/ \E k \in Conns, d \in BatchDocInputs : get_by_document_id(k, d.id)
    \/ \E k \in Conns, d \in BatchDocInputs : delete_by_document_id(k, d.id)

BatchSpec == Init /\ [][BatchNext]_vars

\* one connection listing the documents of a domain: two ids, ingested at
\* the same time or one after the other, in domain code or, for d2, in docs
ListDocInputs ==
    {Document("d1", "code", "h1", 1), Document("d1", "code", "h1", 2),
     Document("d2", "code", "h2", 1), Document("d2", "docs", "h2", 1)}

ListNext ==
    \/ scope_enter("k1")
    \/ scope_exit("k1")
    \/ scope_abort("k1")
    \/ \E d \in ListDocInputs : create("k1", d)
    \/ \E d \in ListDocInputs : update("k1", d)
    \/ \E i \in DocIds : delete("k1", i)
    \/ \E dom \in Domains, limit \in 0..MaxLimit, offset \in 0..MaxOffset :
          list_by_domain("k1", dom, limit, offset)
    \/ \E dom \in Domains, h \in Hashes : get_by_content_hash("k1", dom, h)
    \/ \E c \in ChunkInputs : bulk_create_insert("k1", c)
    \/ bulk_create_return("k1")
    \/ \E i \in DocIds : delete_by_document_id("k1", i)
    \/ \E dom \in Domains \cup {"nonexistent"} : DocumentRepository_count_by_domain("k1", dom)
    \/ \E dom \in Domains \cup {"nonexistent"} : ChunkRepository_count_by_domain("k1", dom)

ListSpec == Init /\ [][ListNext]_vars

(***************************************************************************)
(* Properties                                                              *)
(***************************************************************************)
SameKey(r1, r2) == r1.domain_id = r2.domain_id /\ r1.content_hash = r2.content_hash

\* Python's float comparisons: every comparison with NaN is false
float_gt(s1, s2) == ~IsNaN(s1) /\ ~IsNaN(s2) /\ ~SimGE(s2, s1)

float_ge_fraction(s, t) == ~IsNaN(s) /\ SimGEFraction(s, t)

\* C1: in every reachable state, whatever create, update and delete calls the
\* connections have issued, no two stored documents have the same
\* (domain_id, content_hash): neither in the committed table nor in the table
\* as any connection sees it.
C1_UniqueDomainHash ==
    /\ \A r1, r2 \in documents : SameKey(r1, r2) => r1 = r2
    /\ \A k \in Conns : \A r1, r2 \in DocView(k) : SameKey(r1, r2) => r1 = r2

\* two documents are stored and an update is moving one of them to a new key
C1_Witness ==
    /\ Cardinality(documents) = 2
    /\ \E k \in Conns :
          \E old \in conn[k].dDel, new \in conn[k].dIns : old.id = new.id /\ ~SameKey(old, new)

C3_CascadeAtomic ==
    /\ \A c \in chunks : \E d \in documents : c.document_id = d.id
    /\ \A k \in Conns : \A c \in ChunkView(k) : \E d \in DocView(k) : c.document_id = d.id
    /\ \A k \in Conns, i \in DocIds :
          (Ready(k) /\ conn[k].st = "out" /\ delete_raises(k, i) = NoError)
          => LET after == delete_conn(k, i)
             IN  /\ ~\E d \in DocViewOf(after) : d.id = i
                 /\ ~\E c \in ChunkViewOf(after) : c.document_id = i
                 /\ after.st = "out"

\* a delete has removed a committed document together with its committed chunk
C3_Witness ==
    \E k \in Conns :
        /\ conn[k].st = "out"
        /\ \E d \in conn[k].dDel : /\ ~\E r \in DocView(k) : r.id = d.id
                                   /\ \E c \in conn[k].cDel : c.document_id = d.id
                                   /\ get_by_document_id_returns(k, d.id) = {<<>>}

\* C4: every chunk search_similar(domain, ...) returns has the requested
\* domain_id, whatever the store, the query, top_k and min_similarity.
C4_DomainIsolation ==
    \A dom \in Domains, q \in SerialQueries, n \in SerialTopKs, t \in Thresholds :
        Ready("k1") =>
        \A res \in search_similar_returns("k1", dom, q, n, t) :
            \A i \in DOMAIN res : res[i][1].domain_id = dom

\* the two domains hold chunks with the same embedding, equal to the query,
\* and the search of one domain returns its chunk
C4_Witness ==
    /\ Ready("k1")
    /\ \E r1, r2 \in ChunkView("k1") :
          /\ r1.domain_id = "code" /\ r2.domain_id = "docs"
          /\ r1.embedding = r2.embedding /\ r1.embedding = Unit0
    /\ \E res \in search_similar_returns("k1", "code", Unit0, MaxTopK, Fraction(0, 1)) :
          Len(res) >= 1

\* C5: search_similar(domain, q, top_k) returns at most top_k pairs, and the
\* similarity of each pair is not greater than that of the pair before it.
C5_TopKOrdered ==
    \A dom \in Domains, q \in SerialQueries, n \in SerialTopKs, t \in Thresholds :
        Ready("k1") =>
        \A res \in search_similar_returns("k1", dom, q, n, t) :
            /\ Len(res) <= n
            /\ \A i \in 2..Len(res) : ~float_gt(res[i][2], res[i - 1][2])

\* a search cut off by top_k, and one returning two pairs of different similarity
C5_Witness ==
    /\ Ready("k1")
    /\ Cardinality({r \in ChunkView("k1") : r.domain_id = "code"}) = 2
    /\ \E res \in search_similar_returns("k1", "code", Unit0, 1, Fraction(-1, 1)) :
          Len(res) = 1
    /\ \E res \in search_similar_returns("k1", "code", Unit0, 2, Fraction(-1, 1)) :
          Len(res) = 2 /\ float_gt(res[1][2], res[2][2])

\* C6: search_similar(domain, q, min_similarity = t) returns no pair below t:
\* the similarity reported for every returned pair is at least t.
C6_MinSimilarity ==
    \A dom \in Domains, q \in SerialQueries, n \in SerialTopKs, t \in Thresholds :
        Ready("k1") =>
        \A res \in search_similar_returns("k1", dom, q, n, t) :
            \A i \in DOMAIN res : float_ge_fraction(res[i][2], t)

\* C7: get_by_document_id(id) returns exactly the stored chunks of document id,
\* each once, by ascending position whatever the insertion order, and the
\* empty list, not an error, when the document has none.
C7_ChunksByPosition ==
    \A i \in DocIds :
        Ready("k1") =>
        LET stored == {r \in ChunkView("k1") : r.document_id = i}
            lists == get_by_document_id_returns("k1", i)
        IN  /\ lists # {}
            /\ \A res \in lists :
                  /\ Len(res) = Cardinality(stored)
                  /\ {res[j] : j \in DOMAIN res} = {ChunkMapper_from_row(r) : r \in stored}
                  /\ \A j \in 2..Len(res) : res[j - 1].position <= res[j].position
            /\ stored = {} => lists = {<<>>}
            /\ conn["k1"].st = "out" => get_by_document_id_raises("k1", i) = NoError

\* one batch has inserted the chunk at position 1 before the chunk at position 0
C7_Witness ==
    /\ conn["k1"].st = "out"
    /\ Len(conn["k1"].results) = 2
    /\ conn["k1"].results[1].position > conn["k1"].results[2].position
    /\ conn["k1"].results[1].document_id = conn["k1"].results[2].document_id
    /\ \E res \in get_by_document_id_returns("k1", "d1") :
          Len(res) = 2 /\ res[1].id = conn["k1"].results[2].id

\* C8: while the pool is not open (before open(), during and after close())
\* connection() raises a not-open error and hands out no connection.
C8_NotOpenFails ==
    ~is_open =>
        /\ connection_raises \in {"RuntimeError", "PoolClosed"}
        /\ \A t \in Tasks :
              /\ connection_task(t).pc = "idle"
              /\ connection_task(t).exc = connection_raises
              /\ connection_pools(t) = pools

\* connection() has failed after the pool was opened and closed again
C8_Witness ==
    /\ Len(pools) > 0
    /\ self_pool = None
    /\ \E t \in Tasks : task[t].exc = "RuntimeError"

\* C9: the connections checked out of a pool are those of the tasks inside a
\* scope on it; once every scope has ended, by return, exception or
\* cancellation, no connection is checked out.
C9_AlwaysReturned ==
    /\ \A p \in DOMAIN pools :
          pools[p].out = {t \in Tasks : task[t].pc = "in" /\ task[t].pool = p}
    /\ (\A t \in Tasks : task[t].pc # "in") => \A p \in DOMAIN pools : checked_out(p) = 0

\* one scope has ended by an exception and one by cancellation, none is open
C9_Witness ==
    /\ \E t1, t2 \in Tasks : task[t1].exc = "Exception" /\ task[t2].exc = "CancelledError"
    /\ \A t \in Tasks : task[t].pc = "idle"
    /\ \E p \in DOMAIN pools : pools[p].state = "open"

\* C10: from_row(to_row(d)) = d for every valid Document d, in all eight
\* fields, and d itself is left as it was.
C10_DocumentRoundTrip ==
    \A d \in restored :
        /\ d = original
        /\ DOMAIN d = {"id", "domain_id", "source_path", "content", "content_hash",
                       "metadata", "ingested_at", "source_updated_at"}
        /\ \A f \in DOMAIN d : d[f] = original[f]

\* a document with metadata and two different timestamps has gone both ways
C10_Witness ==
    /\ restored # {}
    /\ original.metadata # {}
    /\ original.ingested_at # original.source_updated_at

(***************************************************************************)
(* Chunk mapper round trips                                                *)
(***************************************************************************)
\* embeddings that are no longer what their construction checked: values
\* appended to or removed from the list in place, and one built with
\* model_construct for a dimensionality that is not supported
AlteredEmbeddings ==
    {EmbeddingVector(Values(769, <<4, 0>>), 768, "test-model"),
     EmbeddingVector(Values(384, <<4, 0>>), 768, "test-model"),
     EmbeddingVector(Values(768, <<4, 0>>), 1536, "test-model"),
     EmbeddingVector(Values(512, <<4, 0>>), 512, "test-model")}

\* the Chunks the mappers are applied to: the valid ones of every supported
\* dimension, with values that are float32 numbers and values that are not,
\* and chunks whose embedding was altered
Chunks ==
    {Chunk(i, "d1", dom, EmbeddingVector(Values(n, lead), n, m), p) :
        i \in {"c1", "c2"}, dom \in Domains, n \in SupportedDimensions,
        lead \in {<<4, 0>>, <<1, 0>>, <<-4, 6>>}, m \in {"test-model", "small-model"},
        p \in {0, 1}}
        \cup {Chunk("c1", "d1", "code", e, 0) : e \in AlteredEmbeddings}

ChunkMapperInit ==
    /\ original \in Chunks
    /\ mapped = {} /\ restored = {}
    /\ StoreInit
    /\ ConnectionPool_init

\* row = ChunkMapper.to_row(chunk)
chunk_to_row ==
    /\ mapped = {}
    /\ mapped' = {ChunkMapper_to_row(original)}
    /\ UNCHANGED <<original, restored, storeVars, poolVars>>

\* chunk = ChunkMapper.from_row(row)
chunk_from_row ==
    /\ mapped # {} /\ restored = {}
    /\ restored' = {ChunkMapper_from_row(r) :
                        r \in {x \in mapped : ChunkMapper_from_row_raises(x) = NoError}}
    /\ UNCHANGED <<original, mapped, storeVars, poolVars>>

ChunkMapperNext == chunk_to_row \/ chunk_from_row

ChunkMapperSpec == ChunkMapperInit /\ [][ChunkMapperNext]_vars

\* C11: from_row(to_row(c)) = c for every valid Chunk c of any supported
\* dimension: every field is restored, the embedding's values, dimensions and
\* model name included.
C11_ChunkRoundTrip ==
    \A c \in restored : Chunk_valid(original) => c = original

\* C12: after create(d2) has failed as a duplicate, the document d1 that holds
\* the key is still retrievable: get_by_id(d1.id), issued next on the same
\* connection, returns d1, and d1 is stored once the scope has ended.
C12_FirstStaysRetrievable ==
    \A k \in Conns :
        (Ready(k) /\ conn[k].exc.type = "DuplicateDocumentError")
        => \A d1 \in DocView(k) :
              SameKey(d1, conn[k].exc)
              => /\ get_by_id_raises(k, d1.id) = NoError
                 /\ get_by_id_returns(k, d1.id) = {DocumentMapper_from_row(d1)}
                 /\ d1 \in scope_exit_documents(k)

\* C13: create(d) raises DuplicateDocumentError only when a stored document
\* has d's (domain_id, content_hash); a create that collides with a stored
\* document on its id alone fails otherwise.
C13_DuplicateOnlyForKey ==
    \A k \in Conns, d \in DocInputs :
        (Ready(k) /\ create_raises(k, d).type = "DuplicateDocumentError")
        => \E r \in DocView(k) : SameKey(r, d)

\* C14: search_similar(domain, q, top_k) called without min_similarity, with
\* top_k at least the number of chunks of the domain, returns every chunk of
\* the domain, those of negative similarity to q included (here even when
\* the scan reaches every row).
C14_DefaultNoFiltering ==
    \A dom \in Domains, q \in SerialQueries :
        LET stored == {r \in ChunkView("k1") : r.domain_id = dom}
        IN  (Ready("k1") /\ conn["k1"].st = "out" /\ Cardinality(stored) <= MaxTopK)
            => \A rows \in search_rows(ChunkView("k1"), dom, np_array_float32(q),
                                       MaxTopK, min_similarity_default) :
                  {rows[i] : i \in DOMAIN rows} = stored

\* C15: a search_similar call whose query vector has another length than the
\* stored embeddings is rejected before a statement reaches the store: the
\* call raises, and what it raises is not an error of the store.
C15_MismatchRejectedEarly ==
    \A dom \in Domains, q \in SerialQueries, visited \in Scans("k1") :
        (Ready("k1") /\ conn["k1"].st = "out" /\ q.n # VectorColumnDim)
        => search_similar_raises("k1", visited, dom, q).type
              \notin {"None", "DataException", "InFailedSqlTransaction"}

\* C18: bulk_create([]) returns the empty list and touches nothing: it raises
\* nothing, even on a connection whose transaction has failed (no statement
\* is issued), it leaves the connection with its open transaction as it was,
\* and the step leaves the committed documents and chunks unchanged.
C18_EmptyBatchNoInteraction ==
    /\ [](\A k \in Conns :
            Ready(k) => /\ bulk_create_empty_raises(k) = NoError
                        /\ bulk_create_empty_returns(k) = <<>>
                        /\ bulk_create_empty_conn(k) = conn[k])
    /\ [][\A k \in Conns : bulk_create_empty(k) => UNCHANGED vars]_vars

\* bulk_create([]) can be called on a transaction that has failed while
\* another connection has writes pending
C18_Witness ==
    \E k \in Conns :
        /\ Ready(k) /\ conn[k].st = "inerror"
        /\ bulk_create_empty_raises(k) = NoError
        /\ \E k2 \in Others(k) : conn[k2].dIns # {}

\* C16: what bulk_create reports is what it has stored: when the loop is over
\* the result holds every input chunk once, in input order, and each is in
\* the table the connection reads; when an insert fails the caller is told
\* which chunk failed (two different chunks never fail with the same error)
\* and the failed transaction keeps none of the batch.
C16_ReportsWhatIsPersisted ==
    LET k == "k1"
    IN  /\ (conn[k].st = "out" /\ conn[k].batch # NoBatch)
           => /\ Len(bulk_create_returns(k)) = Len(conn[k].batch)
              /\ \A i \in DOMAIN conn[k].batch :
                    /\ bulk_create_returns(k)[i].id = conn[k].batch[i].id
                    /\ \E r \in ChunkView(k) : r.id = conn[k].batch[i].id
                    /\ \A j \in DOMAIN conn[k].batch :
                          conn[k].batch[j].id = conn[k].batch[i].id => j = i
        /\ \A c1, c2 \in SerialChunkInputs :
              (/\ conn[k].st = "out"
               /\ bulk_create_raises(k, c1) # NoError
               /\ bulk_create_raises(k, c2) # NoError
               /\ c1.id # c2.id)
              => /\ bulk_create_raises(k, c1) # bulk_create_raises(k, c2)
                 /\ bulk_create_conn(k, c1).st = "inerror"

\* C17: a bulk_create batch is one unit of work. While the call runs, none of
\* its chunks is in the committed table another connection reads (a row the
\* transaction has itself deleted before is not one of the batch); the step
\* that ends the scope publishes the connection's pending chunks all at once
\* or not at all; and once bulk_create has failed at a chunk, none of the
\* chunks inserted before it is ever stored.
C17_BatchIsOneUnit ==
    /\ [](\A k \in Conns : \A i \in DOMAIN conn[k].batch :
            /\ \A r \in chunks \ conn[k].cDel : r.id # conn[k].batch[i].id
            /\ \A k2 \in Others(k) :
                  \A r \in ChunkView(k2) \ conn[k].cDel : r.id # conn[k].batch[i].id)
    /\ [][\A k \in Conns :
            LET pending == conn[k].cIns \ conn[k].cDel
            IN  /\ conn[k].batch # NoBatch => chunks' = chunks \/ conn'[k] = conn[k]
                /\ (conn[k].st # "pooled" /\ conn'[k].st = "pooled")
                   => pending \subseteq chunks' \/ pending \cap chunks' = {}
                /\ conn[k].exc.type \in {"DataException", "UniqueViolation",
                                         "ForeignKeyViolation", "ValidationError"}
                   => pending \cap chunks' = {}]_vars

C20_ChunkHasParent ==
    /\ \A c \in chunks : \E d \in documents : chunks_document_id_fkey(c, d)
    /\ \A k \in Conns :
          /\ \A c \in ChunkView(k) : \E d \in DocView(k) : chunks_document_id_fkey(c, d)
          /\ \A c \in BatchChunkInputs :
                (conn[k].st = "out" /\ ~\E d \in DocView(k) : d.id = c.document_id)
                => /\ bulk_create_raises(k, c) # NoError
                   /\ bulk_create_conn(k, c).cIns = conn[k].cIns
          /\ \A k2 \in Others(k) :
                /\ \A c \in conn[k2].cIns :
                      (Ready(k) /\ conn[k].st = "out"
                       /\ \E d \in DocView(k) : d.id = c.document_id)
                      => delete_raises(k, c.document_id) = Blocked
                /\ \A d \in conn[k2].dDel, c \in BatchChunkInputs :
                      (conn[k].st = "out" /\ c.document_id = d.id
                       /\ ~\E r \in conn[k2].dIns : r.id = d.id)
                      => bulk_create_raises(k, c) # NoError

\* one connection has inserted a chunk of a committed document and not yet
\* committed, and the other connection's delete of the document waits
C20_Witness ==
    \E k \in Conns : \E k2 \in Others(k) :
        \E c \in conn[k2].cIns, d \in documents :
            /\ c.document_id = d.id
            /\ Ready(k) /\ conn[k].st = "out"
            /\ delete_raises(k, d.id) = Blocked

\* C21: every stored chunk carries the domain_id of its parent document,
\* whatever chunks bulk_create was given and whatever update has changed.
C21_ChunkDomainIsParentDomain ==
    \A c \in chunks, d \in documents :
        chunks_document_id_fkey(c, d) => c.domain_id = d.domain_id

\* C22: no invalid chunk is ever stored: every stored chunk has content,
\* token_count > 0, position >= 0 and as many embedding values as its
\* embedding_dimensions says, whatever was done to the Chunk object between
\* its construction and bulk_create.
C22_StoredChunksValid ==
    \A r \in chunks :
        /\ r.content # ""
        /\ r.token_count > 0
        /\ r.position >= 0
        /\ r.embedding.n = r.embedding_dimensions

\* C23: however the callers of one ConnectionPool interleave, a connection
\* is held by one scope only, the connections checked out are never more
\* than max_pool_size, and a caller that asks for a connection while
\* max_pool_size are checked out waits.
C23_BoundedExclusiveCheckout ==
    LET holders == {t \in Tasks : task[t].pc = "in"}
    IN  /\ \A t \in holders :
              \A p \in DOMAIN pools : t \in pools[p].out <=> p = task[t].pool
        /\ Cardinality(holders) <= max_pool_size
        /\ \A t \in Tasks :
              (/\ task[t].pc = "idle"
               /\ connection_raises = NoException
               /\ Cardinality(holders) >= max_pool_size)
              => connection_task(t).pc = "waiting"

\* C24: a request for a connection that is not served before pool_timeout
\* fails with a timeout condition and does not wait forever, and the request
\* that timed out holds no connection.
C24_AcquisitionTimesOut ==
    /\ [](\A t \in Tasks :
            task[t].exc = "PoolTimeout"
            => /\ task[t].pc = "idle"
               /\ \A p \in DOMAIN pools : t \notin pools[p].out)
    /\ \A t \in Tasks : (task[t].pc = "waiting") ~> (task[t].pc # "waiting")

\* a request has timed out while the only connection of the open pool is still out
C24_Witness ==
    \E t \in Tasks :
        /\ task[t].exc = "PoolTimeout"
        /\ is_open
        /\ checked_out(self_pool) = max_pool_size

\* C25: when the store cannot be reached, open() fails with a connectivity
\* failure: no call of open() returns normally for an unreachable store, so
\* that no pool is ever left open against one.
C25_OpenFailsWhenUnreachable ==
    \A p \in DOMAIN pools :
        pools[p].state = "open"
        => pools[p].reachable /\ open_raises(pools[p].reachable) = NoException

C28_ExactlyTheBest ==
    \A dom \in Domains, q \in SerialQueries, n \in SerialTopKs, t \in Thresholds :
        (Ready("k1") /\ conn["k1"].st = "out" /\ q.n = VectorColumnDim)
        => LET sim(r) == cosine_similarity(r.embedding, np_array_float32(q))
               E == {r \in ChunkView("k1") :
                        r.domain_id = dom /\ float_ge_fraction(sim(r), t)}
           IN  \A res \in search_similar_returns("k1", dom, q, n, t) :
                   LET returned == {r \in E : \E i \in DOMAIN res :
                                       res[i][1] = ChunkMapper_from_row(r)}
                   IN  /\ Len(res) = Min(n, Cardinality(E))
                       /\ Cardinality(returned) = Len(res)
                       /\ \A e \in E \ returned, r \in returned : ~float_gt(sim(e), sim(r))

\* C29: from_row rejects every row whose embedding_dimensions is not the
\* number of values of its embedding, or is none of 384, 768 and 1536, with
\* the failure EmbeddingVector's construction raises for these values, and
\* never returns a Chunk whose embedding disagrees with its dimensionality.
C29_FromRowRejectsMismatch ==
    /\ \A r \in mapped :
          (\/ r.embedding_dimensions \notin SupportedDimensions
           \/ r.embedding.n # r.embedding_dimensions)
          => /\ ChunkMapper_from_row_raises(r) # NoError
             /\ ChunkMapper_from_row_raises(r)
                   = EmbeddingVector_raises(tolist(r.embedding), r.embedding_dimensions,
                                            r.embedding_model_name)
    /\ \A c \in restored :
          /\ c.embedding.values.n = c.embedding.dimensions
          /\ c.embedding.dimensions \in SupportedDimensions

\* to_row has made a row of 769 values that says 768, and from_row refuses it
C29_Witness ==
    /\ \E r \in mapped : /\ r.embedding.n = 769 /\ r.embedding_dimensions = 768
                          /\ ChunkMapper_from_row_raises(r).type = "ValidationError"
    /\ restored = {}

\* C30: list_by_domain(domain, limit, offset) returns documents of the domain
\* only, each a stored one and none twice, at most limit of them, the most
\* recently ingested first; for a domain without documents it returns the
\* empty list and raises nothing.
C30_ListByDomain ==
    \A dom \in Domains, limit \in 0..MaxLimit, offset \in 0..MaxOffset :
        (Ready("k1") /\ conn["k1"].st = "out")
        => LET stored == {DocumentMapper_from_row(r) :
                             r \in {x \in DocView("k1") : x.domain_id = dom}}
               lists == list_by_domain_returns("k1", dom, limit, offset)
           IN  /\ list_by_domain_raises("k1", dom, limit, offset) = NoError
               /\ lists # {}
               /\ stored = {} => lists = {<<>>}
               /\ \A res \in lists :
                     /\ Len(res) <= limit
                     /\ \A i \in DOMAIN res : res[i] \in stored /\ res[i].domain_id = dom
                     /\ \A i, j \in DOMAIN res :
                           i < j => res[i].ingested_at >= res[j].ingested_at /\ res[i] # res[j]

\* the domain holds an older and a newer document, listed newest first, while
\* the other domain is empty
C30_Witness ==
    /\ Ready("k1") /\ conn["k1"].st = "out"
    /\ \E res \in list_by_domain_returns("k1", "code", 2, 0) :
          Len(res) = 2 /\ res[1].ingested_at > res[2].ingested_at
    /\ list_by_domain_returns("k1", "docs", 2, 0) = {<<>>}

\* C31: delete_by_document_id(id) removes exactly the chunks whose
\* document_id is id and returns their number, 0 and no error when there are
\* none; every document and every chunk of another document is unchanged, and
\* no chunk of id is left. On a connection whose transaction is live.
C31_DeleteByDocumentFrame ==
    \A i \in DocIds :
        (Ready("k1") /\ conn["k1"].st = "out")
        => LET rows == {r \in ChunkView("k1") : r.document_id = i}
               after == delete_by_document_id_conn("k1", i)
           IN  /\ delete_by_document_id_raises("k1", i) = NoError
               /\ delete_by_document_id_returns("k1", i) = Cardinality(rows)
               /\ rows = {} => delete_by_document_id_returns("k1", i) = 0 /\ after = conn["k1"]
               /\ ChunkViewOf(after) = ChunkView("k1") \ rows
               /\ DocViewOf(after) = DocView("k1")
               /\ {r \in ChunkViewOf(after) : r.document_id = i} = {}
               /\ after.st = "out"

\* both chunks of d1 were stored and have been removed by the transaction,
\* which still sees d1, d2 and the chunk of d2
C31_Witness ==
    /\ Ready("k1") /\ conn["k1"].st = "out"
    /\ Cardinality({r \in conn["k1"].cDel : r.document_id = "d1"}) = 2
    /\ get_by_document_id_rows("k1", "d1") = {<<>>}
    /\ \E r \in ChunkView("k1") : r.document_id = "d2"
    /\ {r.id : r \in DocView("k1")} = {"d1", "d2"}
    /\ delete_by_document_id_returns("k1", "d1") = 0

\* C32: get_by_content_hash(domain, h) returns the stored document whose
\* (domain_id, content_hash) is (domain, h), of which there is at most one,
\* and returns None without raising when there is none, also when h is
\* stored under another domain only. On a live transaction.
C32_LookupByDomainAndHash ==
    \A dom \in Domains, h \in Hashes :
        (Ready("k1") /\ conn["k1"].st = "out")
        => LET found == get_by_content_hash_returns("k1", dom, h)
               stored == {DocumentMapper_from_row(r) : r \in DocView("k1")}
           IN  /\ get_by_content_hash_raises("k1", dom, h) = NoError
               /\ Cardinality(found) <= 1
               /\ \A d \in stored : d \in found <=> (d.domain_id = dom /\ d.content_hash = h)
               /\ found \subseteq stored

\* h2 is stored under docs only: the lookup finds it there and finds nothing
\* under code, where h1 is found
C32_Witness ==
    /\ Ready("k1") /\ conn["k1"].st = "out"
    /\ get_by_content_hash_returns("k1", "docs", "h2") # {}
    /\ get_by_content_hash_returns("k1", "code", "h2") = {}
    /\ get_by_content_hash_returns("k1", "code", "h1") # {}

\* C33: whatever creates, updates and deletes (cascades included) came
\* before, count_by_domain(domain) of the document repository is the number
\* of stored documents of that domain and count_by_domain(domain) of the
\* chunk repository the number of stored chunks of that domain; it is never
\* negative, it is 0 for a domain that has no row, and over all domains the
\* counts add up to the number of rows. On a live transaction.
C33_CountByDomain ==
    (Ready("k1") /\ conn["k1"].st = "out")
    => /\ \A dom \in Domains \cup {"nonexistent"} :
             LET docs == DocumentRepository_count_by_domain_returns("k1", dom)
                 chks == ChunkRepository_count_by_domain_returns("k1", dom)
             IN  /\ docs >= 0 /\ chks >= 0
                 /\ docs = Cardinality({r.id : r \in {x \in DocView("k1") : x.domain_id = dom}})
                 /\ chks = Cardinality({r.id : r \in {x \in ChunkView("k1") : x.domain_id = dom}})
                 /\ (~\E r \in DocView("k1") : r.domain_id = dom) => docs = 0
                 /\ (~\E r \in ChunkView("k1") : r.domain_id = dom) => chks = 0
       /\ DocumentRepository_count_by_domain_returns("k1", "code")
             + DocumentRepository_count_by_domain_returns("k1", "docs")
          = Cardinality(DocView("k1"))
       /\ ChunkRepository_count_by_domain_returns("k1", "code")
             + ChunkRepository_count_by_domain_returns("k1", "docs")
          = Cardinality(ChunkView("k1"))

\* the transaction has moved d2 from code to docs by an update and has
\* deleted d1, whose chunk went with it: one document is counted in docs,
\* none in code, and no chunk is counted
C33_Witness ==
    /\ Ready("k1") /\ conn["k1"].st = "out"
    /\ \E old \in conn["k1"].dDel, new \in conn["k1"].dIns :
          old.id = "d2" /\ new.id = "d2" /\ old.domain_id = "code" /\ new.domain_id = "docs"
    /\ \E r \in conn["k1"].dDel : r.id = "d1"
    /\ \E r \in conn["k1"].cDel : r.document_id = "d1"
    /\ DocumentRepository_count_by_domain_returns("k1", "docs") = 1
    /\ DocumentRepository_count_by_domain_returns("k1", "code") = 0
    /\ ChunkRepository_count_by_domain_returns("k1", "code") = 0

\* C34: for every chunk c that search_similar returns, get_by_id(c.document_id)
\* of the document repository, called with no update or delete of that
\* document in between, raises nothing and returns the parent of c exactly
\* as it was created. On a live transaction.
C34_SearchThenFetchParent ==
    (Ready("k1") /\ conn["k1"].st = "out")
    => \A dom \in Domains, q \in SerialQueries, n \in SerialTopKs, t \in Thresholds :
          \A res \in search_similar_returns("k1", dom, q, n, t) :
             \A i \in DOMAIN res :
                LET c == res[i][1]
                IN  /\ get_by_id_raises("k1", c.document_id) = NoError
                    /\ get_by_id_returns("k1", c.document_id)
                          = {d \in SerialDocInputs : d.id = c.document_id}

\* a search in domain code returns a chunk of d1 and one in docs a chunk of
\* d2, and both parents are fetched
C34_Witness ==
    /\ Ready("k1") /\ conn["k1"].st = "out"
    /\ \E res \in search_similar_returns("k1", "code", Unit0, 1, Fraction(0, 1)) :
          /\ Len(res) = 1 /\ res[1][1].document_id = "d1"
          /\ get_by_id_returns("k1", "d1") = {Document("d1", "code", "h1", 1)}
    /\ \E res \in search_similar_returns("k1", "docs", Unit0, 1, Fraction(0, 1)) :
          /\ Len(res) = 1 /\ res[1][1].document_id = "d2"
          /\ get_by_id_returns("k1", "d2") = {Document("d2", "docs", "h2", 1)}

\* C35: open() on a pool that is already open fails fast: it builds no
\* second underlying pool and does not replace the one self._pool refers to;
\* and whenever the calls made so far end with a close() that has returned
\* (self._pool is None and no close is running), no underlying pool is open.
C35_OpenOnOpenFailsFast ==
    /\ []((self_pool = None /\ \A t \in Tasks : task[t].pc # "closing")
            => \A p \in DOMAIN pools : pools[p].state # "open")
    /\ [][is_open => (Len(pools') = Len(pools) /\ self_pool' \in {self_pool, None})]_vars

\* C36: an open() that fails on a pool that is not open leaves it not open:
\* self._pool is still None and no underlying pool was added, so that a
\* following connection() raises the not-open RuntimeError as if open() had
\* never been called, and the task is free to call open() again.
C36_FailedOpenLeavesNotOpen ==
    [][\A t \in Tasks :
          (/\ self_pool = None
           /\ task[t].pc = "idle"
           /\ task'[t] # task[t]
           /\ task'[t].exc = "ValueError")
          => /\ self_pool' = None
             /\ pools' = pools
             /\ task'[t].pc = "idle"
             /\ connection_raises' = "RuntimeError"
             /\ connection_task(t)' = [IdleTask EXCEPT !.exc = "RuntimeError"]]_vars

\* an open() has failed before any pool was built: the pool is not open and
\* connection() raises RuntimeError
C36_Witness ==
    \E t \in Tasks :
        /\ task[t].exc = "ValueError" /\ task[t].pc = "idle"
        /\ self_pool = None /\ pools = <<>>
        /\ connection_raises = "RuntimeError"

\* C37: an update(d) of a stored document that would give its row the
\* (domain_id, content_hash) of another stored document raises
\* DuplicateDocumentError for that pair, as create does, and changes neither
\* document. (A call that waits for another transaction is not decided yet.)
C37_UpdateCollisionIsDuplicate ==
    \A k \in Conns, d \in DocInputs :
        (/\ Ready(k) /\ conn[k].st = "out"
         /\ \E r \in DocView(k) : r.id = d.id
         /\ \E r \in DocView(k) : r.id # d.id /\ SameKey(r, DocumentMapper_to_row(d))
         /\ update_raises(k, d) # Blocked)
        => /\ update_raises(k, d) = DuplicateDocumentError(d.domain_id, d.content_hash)
           /\ DocViewOf(update_conn(k, d)) = DocView(k)

\* C38: chunk ids are unique, in the table and in what each connection sees,
\* and a stored chunk is never overwritten: a bulk_create pass for a chunk
\* whose id a row the connection sees already has (stored before, or put
\* there by the same batch) fails or waits for the other transaction, and
\* leaves every row as it is; and a committed row gives way to another row
\* of its id only when the committing transaction has deleted it.
C38_ChunkIdsUnique ==
    /\ [](/\ \A r1, r2 \in chunks : r1.id = r2.id => r1 = r2
          /\ \A k \in Conns : \A r1, r2 \in ChunkView(k) : r1.id = r2.id => r1 = r2)
    /\ [](\A k \in Conns, c \in BatchChunkInputs :
            (conn[k].st = "out" /\ \E r \in ChunkView(k) : r.id = c.id)
            => /\ bulk_create_raises(k, c) \in
                     {Blocked, ChunkWriteError("UniqueViolation", ChunkMapper_to_row(c))}
               /\ ChunkViewOf(bulk_create_conn(k, c)) = ChunkView(k))
    /\ [][\A r \in chunks : \A r2 \in chunks' :
            (r2.id = r.id /\ r2 # r) => \E k \in Conns : r \in conn[k].cDel]_vars

\* c2 is stored and a batch that has inserted c1 comes to a chunk with the id
\* of c2 and other fields, and to c1 a second time: both passes fail
C38_Witness ==
    \E k \in Conns, c \in BatchChunkInputs :
        /\ conn[k].st = "out" /\ Len(conn[k].batch) = 1 /\ conn[k].batch[1].id = "c1"
        /\ \E r \in chunks : r.id = "c2" /\ r.id = c.id /\ r # ChunkMapper_to_row(c)
        /\ bulk_create_raises(k, c).type = "UniqueViolation"
        /\ bulk_create_raises(k, conn[k].batch[1]).type = "UniqueViolation"

\* C39: paging through a domain with list_by_domain(domain, n, 0),
\* (domain, n, n), (domain, n, 2n), ... with no write in between, down to the
\* empty page, returns every document of the domain exactly once, also when
\* documents have the same ingested_at. On a live transaction.
C39_PagingReturnsEachOnce ==
    (Ready("k1") /\ conn["k1"].st = "out")
    => \A dom \in Domains, n \in 1..MaxLimit :
          LET stored == {DocumentMapper_from_row(r) :
                            r \in {x \in DocView("k1") : x.domain_id = dom}}
              offsets == {o \in 0..MaxOffset : o % n = 0}
              runs == {f \in [offsets -> UNION {list_by_domain_returns("k1", dom, n, o) :
                                                   o \in offsets}] :
                          \A o \in offsets : f[o] \in list_by_domain_returns("k1", dom, n, o)}
          IN  Cardinality(stored) <= MaxOffset
              => \A f \in runs : \A d \in stored :
                    Cardinality({p \in offsets \X (1..n) :
                                    p[2] \in DOMAIN f[p[1]] /\ f[p[1]][p[2]] = d}) = 1

====
